---- MODULE Spec2Model ----
(***************************************************************************)
(* Model of the in-memory response time service (package response_time):   *)
(* the Service with its data slice, sortedCache, cacheValid flag and       *)
(* sync.RWMutex, and the operations StoreResponseTime, GetResponseTime,    *)
(* rebuildCache and GetStats, each split at the points where another       *)
(* goroutine can interleave.                                               *)
(*                                                                         *)
(* Durations are written in milliseconds (d stands for d*time.Millisecond);*)
(* the service only stores, copies and compares them, so the unit does not *)
(* matter.  The percentile argument is a float64 in the code: the model    *)
(* takes whole-number percentiles and computes the float64 expression      *)
(* (percentile/100.0)*float64(n) on the 53-bit significand, each operation *)
(* rounded to nearest, ties to even, as IEEE 754 does.                     *)
(***************************************************************************)
EXTENDS Integers, Sequences, FiniteSets, Bags, TLC

\* ------------------------------------------------------------------ bounds
NumCallers == 2
MaxLen == 2
QuietLen == 3
RankLen == 50

\* --------------------------------------------------------------- constants
InitialCap == 1000

\* The float64 NaN, which strconv.ParseFloat returns for the text "NaN".  It
\* is written as a number outside the percentiles -199..199 that the float
\* operators take, and every use of a percentile tests for it first.
NaN == 1000
\* Stands for math.MaxInt64; the code only compares it with a slice length.
MaxInt64 == 2147483647
\* The platforms whose float-to-integer instruction differs on a NaN.
Archs == {"amd64", "arm64"}

Callers == 1..NumCallers
\* Nothing written to the http.ResponseWriter yet.
NoResponse == ""
None == 0
Timestamps == {1}
\* Inputs of the callers that run in any interleaving.
Durations == {100, 200}
Percentiles == {-1, 100, 101}
\* Inputs of the runs in which queries do not overlap other calls.
QuietDurations == {100, 150, 200}
QuietPercentiles == {-1, 0, 50, 90, 100, 101, NaN}
\* Percentiles queried in the runs that call GetStats too.
StatsPercentiles == {100}
\* Durations stored in the runs under fairness.
FairDurations == {100}
\* Inputs of the runs in which queries overlap each other but no store.
ReadPercentiles == {-1, 50, 100}
\* Percentiles queried on the long run of one caller.
RankPercentiles == {0, 29, 58, 70, 100}

ErrNil == "nil"
ErrNoData == "no data available"
ErrInvalidPercentile == "percentile must be between 0 and 100"
ErrPanic == "panic: index out of range"

\* ----------------------------------------------------- float64 arithmetic
\* A float64 significand has 53 bits.  It is kept here as three limbs
\* <<a, b, c>> standing for a*2^36 + b*2^18 + c, with b, c < 2^18, so that
\* every intermediate value stays a small integer.

RECURSIVE Pow2(_)
Pow2(k) == IF k = 0 THEN 1 ELSE 2 * Pow2(k - 1)

Limb == Pow2(18)

RECURSIVE BitLen(_)
BitLen(k) == IF k = 0 THEN 0 ELSE 1 + BitLen(k \div 2)

\* Propagate carries so that the two low limbs are below Limb again.
Carry(m) ==
    LET b1 == m[2] + (m[3] \div Limb)
    IN  <<m[1] + (b1 \div Limb), b1 % Limb, m[3] % Limb>>

\* The z with p/100 * 2^z in [1/2, 1), for 1 <= p < 200.
RECURSIVE NormShift(_)
NormShift(p) ==
    IF p >= 100 THEN -1 ELSE IF p >= 50 THEN 0 ELSE 1 + NormShift(2 * p)

\* percentile / 100.0 for a whole percentile 1..199, correctly rounded (ties
\* to even): the float64 mant * 2^-(53 + shift), with 2^52 <= mant <= 2^53.
FloatDiv100(p) ==
    LET z   == NormShift(p)
        a   == (p * Pow2(17 + z)) \div 100
        r1  == (p * Pow2(17 + z)) % 100
        b   == (r1 * Limb) \div 100
        r2  == (r1 * Limb) % 100
        c   == (r2 * Limb) \div 100
        r3  == (r2 * Limb) % 100
        g   == (2 * r3) \div 100
        st  == (2 * r3) % 100 # 0
        up  == g = 1 /\ (st \/ c % 2 = 1)
    IN  [mant |-> Carry(<<a, b, IF up THEN c + 1 ELSE c>>), shift |-> z]

\* f * float64(n) for 1 <= n < 2^13, correctly rounded (ties to even): the
\* exact product has up to 13 bits more than 53, which are rounded away.
FloatMulInt(f, n) ==
    LET P    == Carry(<<f.mant[1] * n, f.mant[2] * n, f.mant[3] * n>>)
        k    == BitLen(P[1]) - 17
        low  == P[3] % Pow2(k)
        half == Pow2(k - 1)
        odd  == (P[3] \div Pow2(k)) % 2 = 1
        up   == low > half \/ (low = half /\ odd)
    IN  IF k <= 0 THEN [mant |-> P, shift |-> f.shift]
        ELSE [mant  |-> Carry(<<P[1], P[2],
                                (P[3] - low) + (IF up THEN Pow2(k) ELSE 0)>>),
              shift |-> f.shift]

\* int(f) for f >= 0: the conversion truncates.
FloatTrunc(f) == f.mant[1] \div Pow2(17 + f.shift)

\* int((percentile/100.0) * float64(n)) for a whole percentile -199..199 and
\* 0 <= n < 2^13.  The sign of a float64 is kept apart from its magnitude and
\* the conversion truncates toward zero, so a negative percentile mirrors the
\* positive one.
RECURSIVE TruncProduct(_, _)
TruncProduct(p, n) ==
    IF p = 0 \/ n = 0 THEN 0
    ELSE IF p < 0 THEN 0 - TruncProduct(0 - p, n)
    ELSE FloatTrunc(FloatMulInt(FloatDiv100(p), n))

\* ------------------------------------------------------------ pure helpers
\* idx := int((percentile/100.0)*float64(len(s.sortedCache))) - 1, clamped
\* below at 0 and then above at n-1 (0-based, as in the code).
ClampIndexNoLower(i, n) == IF i >= n THEN n - 1 ELSE i

ClampIndex(i, n) ==
    LET lo == IF i < 0 THEN 0 ELSE i
    IN  IF lo >= n THEN n - 1 ELSE lo

\* int(f) of a NaN is implementation-dependent in Go: the amd64 instruction
\* gives the smallest int64, from which - 1 wraps around to the largest; the
\* arm64 instruction gives 0.
RankIndexOfNaN(arch, n) ==
    ClampIndex(IF arch = "amd64" THEN MaxInt64 ELSE 0 - 1, n)

RankIndexNoMinusOne(p, n) == ClampIndex(TruncProduct(p, n), n)

RankIndexFromTop(p, n) == ClampIndex(n - TruncProduct(p, n), n)

RankIndex(p, n) == ClampIndex(TruncProduct(p, n) - 1, n)

\* sort.Slice with the less function a < b: ascending order.
RECURSIVE InsertSorted(_, _)
InsertSorted(x, s) ==
    IF s = <<>> THEN <<x>>
    ELSE IF x < Head(s) THEN <<x>> \o s
    ELSE <<Head(s)>> \o InsertSorted(x, Tail(s))

\* The same with the less function a > b.
RECURSIVE InsertSortedDesc(_, _)
InsertSortedDesc(x, s) ==
    IF s = <<>> THEN <<x>>
    ELSE IF x > Head(s) THEN <<x>> \o s
    ELSE <<Head(s)>> \o InsertSortedDesc(x, Tail(s))

RECURSIVE SortDesc(_)
SortDesc(s) ==
    IF s = <<>> THEN <<>> ELSE InsertSortedDesc(Head(s), SortDesc(Tail(s)))

RECURSIVE SortAsc(_)

SortAsc(s) ==
    IF s = <<>> THEN <<>> ELSE InsertSorted(Head(s), SortAsc(Tail(s)))

\* The []int64 of length n that shares the backing array of s.  Elements
\* past len(s) were never written (the cache never shrinks) and are zero.
Reslice(s, n) == [i \in 1..n |-> IF i <= Len(s) THEN s[i] ELSE 0]

\* make([]int64, n)
MakeSlice(n) == [i \in 1..n |-> 0]

\* percentile < 0 || percentile > 100 on float64 operands: a comparison with
\* a NaN operand is false.
OutOfRange(p) == p # NaN /\ (p < 0 \/ p > 100)

\* The order of the two checks that GetResponseTime makes under the read
\* lock, and the use of the cache flag.
GetOutcomeRangeFirst(n, p, valid) ==
    IF OutOfRange(p) THEN "invalid"
    ELSE IF n = 0 THEN "nodata"
    ELSE IF ~valid THEN "stale"
    ELSE "fresh"

GetOutcomeAndRange(n, p, valid) ==
    IF n = 0 THEN "nodata"
    ELSE IF p # NaN /\ p < 0 /\ p > 100 THEN "invalid"
    ELSE IF ~valid THEN "stale"
    ELSE "fresh"

GetOutcomeNoRebuild(n, p, valid) ==
    IF n = 0 THEN "nodata"
    ELSE IF OutOfRange(p) THEN "invalid"
    ELSE "fresh"

GetOutcome(n, p, valid) ==
    IF n = 0 THEN "nodata"
    ELSE IF OutOfRange(p) THEN "invalid"
    ELSE IF ~valid THEN "stale"
    ELSE "fresh"

\* ------------------------------------------------------------------- state
VARIABLES
    data,         \* Service.data: the entries in arrival order
    sortedCache,  \* Service.sortedCache
    cacheCap,     \* cap(Service.sortedCache)
    cacheValid,   \* Service.cacheValid
    mu,           \* Service.mu: writer (pending or holding), locked, readers
    pc,           \* where each caller is in its call
    argTs,        \* StoreResponseTime's ts
    argDur,       \* StoreResponseTime's duration
    percentile,   \* GetResponseTime's percentile
    result,       \* the time.Duration a call is about to return
    err,          \* the error a call is about to return
    lastPos,      \* position in data of the caller's last returned store
    stats,        \* the map that GetStats is building
    udata,        \* data of the Service without cache (one sync.Mutex)
    uresult,      \* the time.Duration its last GetResponseTime returned
    uerr,         \* the error its last GetResponseTime returned
    response      \* what storeHandler wrote to its http.ResponseWriter

vars == <<data, sortedCache, cacheCap, cacheValid, mu, pc, argTs, argDur,
          percentile, result, err, lastPos, stats,
          udata, uresult, uerr, response>>

shared == <<data, sortedCache, cacheCap, cacheValid>>
uncached == <<udata, uresult, uerr>>
locals == <<argTs, argDur, percentile, result, err, lastPos, stats>>

EmptyStats == [total_entries |-> 0, cache_valid |-> FALSE, cache_size |-> 0]

Entry(ts, d) == [Timestamp |-> ts, Duration |-> d]

DurationsOf(s) == [i \in 1..Len(s) |-> s[i].Duration]

\* NewService, and every caller outside any call.
InitDirty ==
    /\ data = <<>>
    /\ sortedCache = <<>>
    /\ cacheCap = InitialCap
    /\ cacheValid = FALSE
    /\ mu = [writer |-> None, locked |-> FALSE, readers |-> {}]
    /\ pc = [c \in Callers |-> "idle"]
    /\ argTs = [c \in Callers |-> 0]
    /\ argDur = [c \in Callers |-> 0]
    /\ percentile = [c \in Callers |-> 0]
    /\ result = [c \in Callers |-> 0]
    /\ err = [c \in Callers |-> ErrNil]
    /\ lastPos = [c \in Callers |-> 0]
    /\ stats = [c \in Callers |-> EmptyStats]
    /\ udata = <<>>
    /\ uresult = 0
    /\ uerr = ErrNil
    /\ response = [c \in Callers |-> NoResponse]

Init ==
    /\ data = <<>>
    /\ sortedCache = <<>>
    /\ cacheCap = InitialCap
    /\ cacheValid = TRUE
    /\ mu = [writer |-> None, locked |-> FALSE, readers |-> {}]
    /\ pc = [c \in Callers |-> "idle"]
    /\ argTs = [c \in Callers |-> 0]
    /\ argDur = [c \in Callers |-> 0]
    /\ percentile = [c \in Callers |-> 0]
    /\ result = [c \in Callers |-> 0]
    /\ err = [c \in Callers |-> ErrNil]
    /\ lastPos = [c \in Callers |-> 0]
    /\ stats = [c \in Callers |-> EmptyStats]
    /\ udata = <<>>
    /\ uresult = 0
    /\ uerr = ErrNil
    /\ response = [c \in Callers |-> NoResponse]

\* ---------------------------------------------------------- sync.RWMutex
\* Lock: the writer first excludes other writers and announces itself, which
\* makes new readers wait; it then waits for the active readers to leave.
MuLockBegin(c) ==
    /\ mu.writer = None
    /\ mu' = [mu EXCEPT !.writer = c]

MuLockEnd(c) ==
    /\ mu.writer = c
    /\ ~mu.locked
    /\ mu.readers = {}
    /\ mu' = [mu EXCEPT !.locked = TRUE]

MuUnlock(c) ==
    /\ mu.writer = c
    /\ mu.locked
    /\ mu' = [mu EXCEPT !.writer = None, !.locked = FALSE]

MuRLock(c) ==
    /\ mu.writer = None
    /\ mu' = [mu EXCEPT !.readers = @ \cup {c}]

MuRUnlocked(c) == [mu EXCEPT !.readers = @ \ {c}]

\* ---------------------------------------------------- StoreResponseTime
CallStore(c, ts, d) ==
    /\ pc[c] = "idle"
    /\ pc' = [pc EXCEPT ![c] = "s_lock"]
    /\ argTs' = [argTs EXCEPT ![c] = ts]
    /\ argDur' = [argDur EXCEPT ![c] = d]
    /\ UNCHANGED <<uncached, response, shared, mu, percentile, result, err, lastPos, stats>>

StoreLock(c) ==
    /\ pc[c] = "s_lock"
    /\ MuLockBegin(c)
    /\ pc' = [pc EXCEPT ![c] = "s_wait"]
    /\ UNCHANGED <<uncached, response, shared, locals>>

StoreLocked(c) ==
    /\ pc[c] = "s_wait"
    /\ MuLockEnd(c)
    /\ pc' = [pc EXCEPT ![c] = "s_append"]
    /\ UNCHANGED <<uncached, response, shared, locals>>

StoreAppendFront(c) ==
    /\ pc[c] = "s_append"
    /\ data' = <<Entry(argTs[c], argDur[c])>> \o data
    /\ pc' = [pc EXCEPT ![c] = "s_inval"]
    /\ UNCHANGED <<uncached, response, sortedCache, cacheCap, cacheValid, mu, locals>>

StoreAppend(c) ==
    /\ pc[c] = "s_append"
    /\ data' = Append(data, Entry(argTs[c], argDur[c]))
    /\ pc' = [pc EXCEPT ![c] = "s_inval"]
    /\ UNCHANGED <<uncached, response, sortedCache, cacheCap, cacheValid, mu, locals>>

StoreInvalidateSkipped(c) ==
    /\ pc[c] = "s_inval"
    /\ pc' = [pc EXCEPT ![c] = "s_unlock"]
    /\ UNCHANGED <<uncached, response, shared, mu, locals>>

StoreInvalidate(c) ==
    /\ pc[c] = "s_inval"
    /\ cacheValid' = FALSE
    /\ pc' = [pc EXCEPT ![c] = "s_unlock"]
    /\ UNCHANGED <<uncached, response, data, sortedCache, cacheCap, mu, locals>>

\* The deferred Unlock and return nil.
StoreUnlockCached(c) ==
    /\ pc[c] = "s_unlock"
    /\ MuUnlock(c)
    /\ pc' = [pc EXCEPT ![c] = "idle"]
    /\ lastPos' = [lastPos EXCEPT ![c] = Len(data)]
    /\ argTs' = [argTs EXCEPT ![c] = 0]
    /\ argDur' = [argDur EXCEPT ![c] = 0]
    /\ UNCHANGED <<shared, percentile, result, err, stats>>

StoreUnlock(c) == StoreUnlockCached(c) /\ UNCHANGED <<uncached, response>>

\* ------------------------------------------------------ GetResponseTime
CallGet(c, p) ==
    /\ pc[c] = "idle"
    /\ pc' = [pc EXCEPT ![c] = "g_rlock"]
    /\ percentile' = [percentile EXCEPT ![c] = p]
    /\ UNCHANGED <<uncached, response, shared, mu, argTs, argDur, result, err, lastPos, stats>>

GetRLock(c) ==
    /\ pc[c] = "g_rlock"
    /\ MuRLock(c)
    /\ pc' = [pc EXCEPT ![c] = "g_check"]
    /\ UNCHANGED <<uncached, response, shared, locals>>

\* The checks made under the read lock: empty data, percentile range, cache
\* flag.  Each of the first three ends with RUnlock.
GetCheckKeepRLock(c) ==
    /\ pc[c] = "g_check"
    /\ LET o == GetOutcome(Len(data), percentile[c], cacheValid)
       IN  CASE o = "nodata" ->
                   /\ mu' = MuRUnlocked(c)
                   /\ err' = [err EXCEPT ![c] = ErrNoData]
                   /\ pc' = [pc EXCEPT ![c] = "g_ret"]
             [] o = "invalid" ->
                   /\ mu' = MuRUnlocked(c)
                   /\ err' = [err EXCEPT ![c] = ErrInvalidPercentile]
                   /\ pc' = [pc EXCEPT ![c] = "g_ret"]
             [] o = "stale" ->
                   /\ pc' = [pc EXCEPT ![c] = "rb_lock"]
                   /\ UNCHANGED <<mu, err>>
             [] OTHER ->
                   /\ pc' = [pc EXCEPT ![c] = "g_read"]
                   /\ UNCHANGED <<mu, err>>
    /\ UNCHANGED <<uncached, response, shared, argTs, argDur, percentile, result, lastPos, stats>>

GetCheckMarksValid(c) ==
    /\ pc[c] = "g_check"
    /\ LET o == GetOutcome(Len(data), percentile[c], cacheValid)
       IN  CASE o = "nodata" ->
                   /\ mu' = MuRUnlocked(c)
                   /\ err' = [err EXCEPT ![c] = ErrNoData]
                   /\ pc' = [pc EXCEPT ![c] = "g_ret"]
                   /\ UNCHANGED cacheValid
             [] o = "invalid" ->
                   /\ mu' = MuRUnlocked(c)
                   /\ err' = [err EXCEPT ![c] = ErrInvalidPercentile]
                   /\ pc' = [pc EXCEPT ![c] = "g_ret"]
                   /\ cacheValid' = TRUE
             [] o = "stale" ->
                   /\ mu' = MuRUnlocked(c)
                   /\ pc' = [pc EXCEPT ![c] = "rb_lock"]
                   /\ UNCHANGED <<err, cacheValid>>
             [] OTHER ->
                   /\ pc' = [pc EXCEPT ![c] = "g_read"]
                   /\ UNCHANGED <<mu, err, cacheValid>>
    /\ UNCHANGED <<uncached, response, data, sortedCache, cacheCap, argTs, argDur, percentile,
                   result, lastPos, stats>>

GetCheckCached(c) ==
    /\ pc[c] = "g_check"
    /\ LET o == GetOutcome(Len(data), percentile[c], cacheValid)
       IN  CASE o = "nodata" ->
                   /\ mu' = MuRUnlocked(c)
                   /\ err' = [err EXCEPT ![c] = ErrNoData]
                   /\ pc' = [pc EXCEPT ![c] = "g_ret"]
             [] o = "invalid" ->
                   /\ mu' = MuRUnlocked(c)
                   /\ err' = [err EXCEPT ![c] = ErrInvalidPercentile]
                   /\ pc' = [pc EXCEPT ![c] = "g_ret"]
             [] o = "stale" ->
                   /\ mu' = MuRUnlocked(c)
                   /\ pc' = [pc EXCEPT ![c] = "rb_lock"]
                   /\ UNCHANGED err
             [] OTHER ->
                   /\ pc' = [pc EXCEPT ![c] = "g_read"]
                   /\ UNCHANGED <<mu, err>>
    /\ UNCHANGED <<shared, argTs, argDur, percentile, result, lastPos,
                   stats>>

GetCheck(c) == GetCheckCached(c) /\ UNCHANGED <<uncached, response>>

\* rebuildCache
RebuildLock(c) ==
    /\ pc[c] = "rb_lock"
    /\ MuLockBegin(c)
    /\ pc' = [pc EXCEPT ![c] = "rb_wait"]
    /\ UNCHANGED <<uncached, response, shared, locals>>

RebuildLocked(c) ==
    /\ pc[c] = "rb_wait"
    /\ MuLockEnd(c)
    /\ pc' = [pc EXCEPT ![c] = "rb_resize"]
    /\ UNCHANGED <<uncached, response, shared, locals>>

RebuildResizeTruncate(c) ==
    /\ pc[c] = "rb_resize"
    /\ IF cacheCap < Len(data)
       THEN /\ sortedCache' = MakeSlice(Len(data))
            /\ cacheCap' = Len(data)
       ELSE /\ sortedCache' = Reslice(sortedCache, 0)
            /\ UNCHANGED cacheCap
    /\ pc' = [pc EXCEPT ![c] = "rb_copy"]
    /\ UNCHANGED <<uncached, response, data, cacheValid, mu, locals>>

RebuildResizeGrow(c) ==
    /\ pc[c] = "rb_resize"
    /\ IF cacheCap < Len(data)
       THEN /\ sortedCache' = MakeSlice(Len(data))
            /\ cacheCap' = Len(data)
       ELSE /\ sortedCache' = Reslice(sortedCache, Len(sortedCache) + Len(data))
            /\ UNCHANGED cacheCap
    /\ pc' = [pc EXCEPT ![c] = "rb_copy"]
    /\ UNCHANGED <<uncached, response, data, cacheValid, mu, locals>>

RebuildResize(c) ==
    /\ pc[c] = "rb_resize"
    /\ IF cacheCap < Len(data)
       THEN /\ sortedCache' = MakeSlice(Len(data))
            /\ cacheCap' = Len(data)
       ELSE /\ sortedCache' = Reslice(sortedCache, Len(data))
            /\ UNCHANGED cacheCap
    /\ pc' = [pc EXCEPT ![c] = "rb_copy"]
    /\ UNCHANGED <<uncached, response, data, cacheValid, mu, locals>>

RebuildCopyShort(c) ==
    /\ pc[c] = "rb_copy"
    /\ sortedCache' = [i \in 1..Len(sortedCache) |->
                          IF i < Len(data) THEN data[i].Duration
                          ELSE sortedCache[i]]
    /\ pc' = [pc EXCEPT ![c] = "rb_sort"]
    /\ UNCHANGED <<uncached, response, data, cacheCap, cacheValid, mu, locals>>

RebuildCopy(c) ==
    /\ pc[c] = "rb_copy"
    /\ sortedCache' = [i \in 1..Len(sortedCache) |->
                          IF i <= Len(data) THEN data[i].Duration
                          ELSE sortedCache[i]]
    /\ pc' = [pc EXCEPT ![c] = "rb_sort"]
    /\ UNCHANGED <<uncached, response, data, cacheCap, cacheValid, mu, locals>>

RebuildSortData(c) ==
    /\ pc[c] = "rb_sort"
    /\ sortedCache' = SortAsc(sortedCache)
    /\ data' = [i \in 1..Len(data) |->
                   Entry(data[i].Timestamp, SortAsc(DurationsOf(data))[i])]
    /\ pc' = [pc EXCEPT ![c] = "rb_valid"]
    /\ UNCHANGED <<uncached, response, cacheCap, cacheValid, mu, locals>>

RebuildSort(c) ==
    /\ pc[c] = "rb_sort"
    /\ sortedCache' = SortAsc(sortedCache)
    /\ pc' = [pc EXCEPT ![c] = "rb_valid"]
    /\ UNCHANGED <<uncached, response, data, cacheCap, cacheValid, mu, locals>>

RebuildValid(c) ==
    /\ pc[c] = "rb_valid"
    /\ cacheValid' = TRUE
    /\ pc' = [pc EXCEPT ![c] = "rb_unlock"]
    /\ UNCHANGED <<uncached, response, data, sortedCache, cacheCap, mu, locals>>

\* The deferred Unlock; rebuildCache returns to GetResponseTime.
RebuildUnlock(c) ==
    /\ pc[c] = "rb_unlock"
    /\ MuUnlock(c)
    /\ pc' = [pc EXCEPT ![c] = "g_rlock2"]
    /\ UNCHANGED <<uncached, response, shared, locals>>

\* s.mu.RLock() after rebuildCache
GetRLockAgain(c) ==
    /\ pc[c] = "g_rlock2"
    /\ MuRLock(c)
    /\ pc' = [pc EXCEPT ![c] = "g_read"]
    /\ UNCHANGED <<uncached, response, shared, locals>>

\* The index computation, the read of sortedCache[idx] and RUnlock.  An index
\* outside the slice is a run-time panic, which leaves the read lock held.
GetReadAt(c, idx) ==
    /\ pc[c] = "g_read"
    /\ IF 0 <= idx /\ idx < Len(sortedCache)
       THEN /\ result' = [result EXCEPT ![c] = sortedCache[idx + 1]]
            /\ err' = [err EXCEPT ![c] = ErrNil]
            /\ mu' = MuRUnlocked(c)
            /\ pc' = [pc EXCEPT ![c] = "g_ret"]
       ELSE /\ err' = [err EXCEPT ![c] = ErrPanic]
            /\ pc' = [pc EXCEPT ![c] = "panic"]
            /\ UNCHANGED <<result, mu>>
    /\ UNCHANGED <<shared, argTs, argDur, percentile, lastPos, stats>>

\* The platforms that can be told apart by a query with percentile p.
ArchsFor(p) == IF p = NaN THEN Archs ELSE {"amd64"}

\* The index that the code computes on platform arch.
IndexOn(arch, p, n) ==
    IF p = NaN THEN RankIndexOfNaN(arch, n) ELSE RankIndex(p, n)

GetReadOn(c, arch) ==
    GetReadAt(c, IndexOn(arch, percentile[c], Len(sortedCache)))

GetReadDataLen(c) ==
    /\ \E arch \in ArchsFor(percentile[c]) :
           GetReadAt(c, IndexOn(arch, percentile[c], Len(data)))
    /\ UNCHANGED <<uncached, response>>

GetRead(c) ==
    /\ \E arch \in ArchsFor(percentile[c]) : GetReadOn(c, arch)
    /\ UNCHANGED <<uncached, response>>

\* return result, err: the caller has the answer and is outside the call.
GetReturnCached(c) ==
    /\ pc[c] = "g_ret"
    /\ pc' = [pc EXCEPT ![c] = "idle"]
    /\ percentile' = [percentile EXCEPT ![c] = 0]
    /\ result' = [result EXCEPT ![c] = 0]
    /\ err' = [err EXCEPT ![c] = ErrNil]
    /\ UNCHANGED <<shared, mu, argTs, argDur, lastPos, stats>>

GetReturn(c) == GetReturnCached(c) /\ UNCHANGED <<uncached, response>>

\* ------------------------------------------------------------- GetStats
CallStats(c) ==
    /\ pc[c] = "idle"
    /\ pc' = [pc EXCEPT ![c] = "st_rlock"]
    /\ UNCHANGED <<uncached, response, shared, mu, locals>>

StatsNoLock(c) ==
    /\ pc[c] = "st_rlock"
    /\ pc' = [pc EXCEPT ![c] = "st_count"]
    /\ UNCHANGED <<uncached, response, shared, mu, locals>>

StatsRLock(c) ==
    /\ pc[c] = "st_rlock"
    /\ MuRLock(c)
    /\ pc' = [pc EXCEPT ![c] = "st_count"]
    /\ UNCHANGED <<uncached, response, shared, locals>>

\* The map literal reads its three values one after the other.
StatsCount(c) ==
    /\ pc[c] = "st_count"
    /\ stats' = [stats EXCEPT ![c].total_entries = Len(data)]
    /\ pc' = [pc EXCEPT ![c] = "st_valid"]
    /\ UNCHANGED <<uncached, response, shared, mu, argTs, argDur, percentile, result, err, lastPos>>

StatsValid(c) ==
    /\ pc[c] = "st_valid"
    /\ stats' = [stats EXCEPT ![c].cache_valid = cacheValid]
    /\ pc' = [pc EXCEPT ![c] = "st_size"]
    /\ UNCHANGED <<uncached, response, shared, mu, argTs, argDur, percentile, result, err, lastPos>>

StatsSize(c) ==
    /\ pc[c] = "st_size"
    /\ stats' = [stats EXCEPT ![c].cache_size = Len(sortedCache)]
    /\ pc' = [pc EXCEPT ![c] = "st_unlock"]
    /\ UNCHANGED <<uncached, response, shared, mu, argTs, argDur, percentile, result, err, lastPos>>

\* The deferred RUnlock.
StatsRUnlock(c) ==
    /\ pc[c] = "st_unlock"
    /\ mu' = MuRUnlocked(c)
    /\ pc' = [pc EXCEPT ![c] = "st_ret"]
    /\ UNCHANGED <<uncached, response, shared, locals>>

\* return: the caller has the map and is outside the call.
StatsReturn(c) ==
    /\ pc[c] = "st_ret"
    /\ pc' = [pc EXCEPT ![c] = "idle"]
    /\ stats' = [stats EXCEPT ![c] = EmptyStats]
    /\ UNCHANGED <<uncached, response, shared, mu, argTs, argDur, percentile, result, err, lastPos>>

\* ----------------------------------------------------------- specifications
StorePcs == {"s_lock", "s_wait", "s_append", "s_inval", "s_unlock"}
GetPcs == {"g_rlock", "g_check", "rb_lock", "rb_wait", "rb_resize", "rb_copy",
           "rb_sort", "rb_valid", "rb_unlock", "g_rlock2", "g_read", "g_ret",
           "panic"}

StatsPcs == {"st_rlock", "st_count", "st_valid", "st_size", "st_unlock",
             "st_ret"}

\* Entries that calls in progress have still to append.
PendingStores == Cardinality({c \in Callers : pc[c] \in {"s_lock", "s_wait", "s_append"}})

Step(c) ==
    \/ StoreLock(c)
    \/ StoreLocked(c)
    \/ StoreAppend(c)
    \/ StoreInvalidate(c)
    \/ StoreUnlock(c)
    \/ GetRLock(c)
    \/ GetCheck(c)
    \/ RebuildLock(c)
    \/ RebuildLocked(c)
    \/ RebuildResize(c)
    \/ RebuildCopy(c)
    \/ RebuildSort(c)
    \/ RebuildValid(c)
    \/ RebuildUnlock(c)
    \/ GetRLockAgain(c)
    \/ GetRead(c)
    \/ GetReturn(c)

StatsStep(c) ==
    \/ StatsRLock(c)
    \/ StatsCount(c)
    \/ StatsValid(c)
    \/ StatsSize(c)
    \/ StatsRUnlock(c)
    \/ StatsReturn(c)

\* Any callers, any interleaving.
Next ==
    \E c \in Callers :
        \/ /\ Len(data) + PendingStores < MaxLen
           /\ \E ts \in Timestamps, d \in Durations : CallStore(c, ts, d)
        \/ \E p \in Percentiles : CallGet(c, p)
        \/ Step(c)

Spec == Init /\ [][Next]_vars


\* Stores run concurrently with each other; a query is issued only when no
\* call is in progress, and no call is issued while the query runs.
AllIdle == \A c \in Callers : pc[c] = "idle"
NoQuery == \A c \in Callers : pc[c] \notin GetPcs

NextQuiet ==
    \E c \in Callers :
        \/ /\ NoQuery
           /\ Len(data) + PendingStores < QuietLen
           /\ \E ts \in Timestamps, d \in QuietDurations : CallStore(c, ts, d)
        \/ /\ AllIdle
           /\ \E p \in QuietPercentiles : CallGet(c, p)
        \/ Step(c)

SpecQuiet == Init /\ [][NextQuiet]_vars

\* Queries overlap each other; a store is issued only when no query is in
\* progress, and a query only when no store is.
NoStore == \A c \in Callers : pc[c] \notin StorePcs

NextReaders ==
    \E c \in Callers :
        \/ /\ NoQuery
           /\ Len(data) + PendingStores < MaxLen
           /\ \E ts \in Timestamps, d \in Durations : CallStore(c, ts, d)
        \/ /\ NoStore
           /\ \E p \in ReadPercentiles : CallGet(c, p)
        \/ Step(c)

SpecReaders == Init /\ [][NextReaders]_vars

\* Stores, queries and one GetStats at a time run in any interleaving.
NoStats == \A c \in Callers : pc[c] \notin StatsPcs

NextStats ==
    \E c \in Callers :
        \/ /\ Len(data) + PendingStores < MaxLen
           /\ \E ts \in Timestamps, d \in Durations : CallStore(c, ts, d)
        \/ \E p \in StatsPercentiles : CallGet(c, p)
        \/ /\ NoStats
           /\ CallStats(c)
        \/ Step(c)
        \/ StatsStep(c)

SpecStats == Init /\ [][NextStats]_vars

\* The same calls under a fair scheduler and a fair lock: a goroutine that
\* can take a step takes it, and one that waits for the lock gets it when
\* the lock keeps becoming free (sync.RWMutex hands the lock to waiters in
\* turn and makes new readers wait behind a waiting writer).
\* The read of GetResponseTime is a step the caller can take whatever index
\* it has computed, so the condition on it does not depend on the index.
GetReadAnyIndex(c) ==
    /\ \E idx \in -1..Len(sortedCache) : GetReadAt(c, idx)
    /\ UNCHANGED <<uncached, response>>

FairStep(c) ==
    \/ StoreLock(c)
    \/ StoreLocked(c)
    \/ StoreAppend(c)
    \/ StoreInvalidate(c)
    \/ StoreUnlock(c)
    \/ GetRLock(c)
    \/ GetCheck(c)
    \/ RebuildLock(c)
    \/ RebuildLocked(c)
    \/ RebuildResize(c)
    \/ RebuildCopy(c)
    \/ RebuildSort(c)
    \/ RebuildValid(c)
    \/ RebuildUnlock(c)
    \/ GetRLockAgain(c)
    \/ GetReadAnyIndex(c)
    \/ GetReturn(c)
    \/ StatsStep(c)

Fairness == \A c \in Callers : SF_vars(FairStep(c))

NextFair ==
    \E c \in Callers :
        \/ /\ Len(data) + PendingStores < MaxLen
           /\ \E ts \in Timestamps, d \in FairDurations : CallStore(c, ts, d)
        \/ \E p \in StatsPercentiles : CallGet(c, p)
        \/ /\ NoStats
           /\ CallStats(c)
        \/ Step(c)
        \/ StatsStep(c)

SpecFair == Init /\ [][NextFair]_vars /\ Fairness

\* One caller stores RankLen distinct durations, largest first, and queries
\* between the stores.
NextRank ==
    \/ /\ Len(data) < RankLen
       /\ CallStore(1, 1, RankLen - Len(data))
    \/ \E p \in RankPercentiles : CallGet(1, p)
    \/ Step(1)

SpecRank == Init /\ [][NextRank]_vars

\* ------------------------------------------- the Service without cache
\* The Service of internal/response_time keeps data only and holds one
\* sync.Mutex for the whole of each call; a call that no other call
\* overlaps is one step.
UncachedStoreResponseTime(ts, d) ==
    /\ udata' = Append(udata, Entry(ts, d))
    /\ UNCHANGED <<uresult, uerr>>

UncachedUnsorted(s) == DurationsOf(s)

\* The copy of the durations, sorted in ascending order.
UncachedSorted(s) == SortAsc(DurationsOf(s))

UncachedGetResponseTime(p, arch) ==
    /\ IF Len(udata) = 0
       THEN uresult' = 0 /\ uerr' = ErrNoData
       ELSE IF OutOfRange(p)
       THEN uresult' = 0 /\ uerr' = ErrInvalidPercentile
       ELSE LET durations == UncachedSorted(udata)
                idx == IndexOn(arch, p, Len(durations))
            IN  uresult' = durations[idx + 1] /\ uerr' = ErrNil
    /\ UNCHANGED udata

\* The caller has taken the answer of the Service without cache.
UncachedReturn ==
    /\ uresult' = 0
    /\ uerr' = ErrNil
    /\ UNCHANGED udata

\* One caller applies each call to both Services, one call after the
\* other.  The Service without cache makes its call at the step at which
\* the cached Service completes the same call, on the same platform.
StoreBoth(ts, d) ==
    /\ Len(data) < QuietLen
    /\ CallStore(1, ts, d)

StoreUnlockBoth ==
    /\ StoreUnlockCached(1)
    /\ UncachedStoreResponseTime(argTs[1], argDur[1])
    /\ UNCHANGED response

GetCheckBoth ==
    /\ GetCheckCached(1)
    /\ IF GetOutcome(Len(data), percentile[1], cacheValid)
              \in {"nodata", "invalid"}
       THEN UncachedGetResponseTime(percentile[1], "amd64")
       ELSE UNCHANGED uncached
    /\ UNCHANGED response

GetReadBoth ==
    \E arch \in ArchsFor(percentile[1]) :
        /\ GetReadOn(1, arch)
        /\ UncachedGetResponseTime(percentile[1], arch)
        /\ UNCHANGED response

GetReturnBoth ==
    /\ GetReturnCached(1)
    /\ UncachedReturn
    /\ UNCHANGED response

NextEquiv ==
    \/ \E ts \in Timestamps, d \in QuietDurations : StoreBoth(ts, d)
    \/ StoreLock(1)
    \/ StoreLocked(1)
    \/ StoreAppend(1)
    \/ StoreInvalidate(1)
    \/ StoreUnlockBoth
    \/ \E p \in QuietPercentiles : CallGet(1, p)
    \/ GetRLock(1)
    \/ GetCheckBoth
    \/ RebuildLock(1)
    \/ RebuildLocked(1)
    \/ RebuildResize(1)
    \/ RebuildCopy(1)
    \/ RebuildSort(1)
    \/ RebuildValid(1)
    \/ RebuildUnlock(1)
    \/ GetRLockAgain(1)
    \/ GetReadBoth
    \/ GetReturnBoth

SpecEquiv == Init /\ [][NextEquiv]_vars

\* --------------------------------------------------------- storeHandler
\* POST /store of the HTTP server, whose svc is the Service above.  A
\* request is its method and its body: whether the body decodes into a
\* storeRequest, and the timestamp and duration_ms it then carries.
MethodPost == "POST"
HttpMethods == {"POST", "GET"}
TimestampStrings == {"2024-01-15T10:30:00Z", "15/01/2024"}
\* duration_ms is an int64; these values keep duration_ms * Millisecond
\* away from the wrap of time.Duration.
DurationMsValues == {-5, 150}
Requests == [method : HttpMethods, decodes : BOOLEAN,
             timestamp : TimestampStrings, duration_ms : DurationMsValues]

MethodNotAllowed == "405 method not allowed"
InvalidRequest == "400 invalid request"
InvalidTimestamp == "400 invalid timestamp"
StatusOk == "200 ok"

\* time.Parse(time.RFC3339, s): the time, or an error.
ParseRFC3339(s) ==
    IF s = "2024-01-15T10:30:00Z"
    THEN [ok |-> TRUE, ts |-> 1]
    ELSE [ok |-> FALSE, ts |-> 0]

\* time.Millisecond, in the nanoseconds of time.Duration.
Millisecond == 1000000

\* time.Duration(req.DurationMs) * time.Millisecond
DurationOfMs(ms) == ms * Millisecond

\* storeHandler up to its call of svc.StoreResponseTime: the method, the
\* decoding of the body and the timestamp are checked, duration_ms is not.
StoreHandler(c, r) ==
    /\ pc[c] = "idle"
    /\ IF r.method # MethodPost
       THEN /\ response' = [response EXCEPT ![c] = MethodNotAllowed]
            /\ UNCHANGED <<pc, argTs, argDur>>
       ELSE IF ~r.decodes
       THEN /\ response' = [response EXCEPT ![c] = InvalidRequest]
            /\ UNCHANGED <<pc, argTs, argDur>>
       ELSE IF ~ParseRFC3339(r.timestamp).ok
       THEN /\ response' = [response EXCEPT ![c] = InvalidTimestamp]
            /\ UNCHANGED <<pc, argTs, argDur>>
       ELSE /\ response' = [response EXCEPT ![c] = NoResponse]
            /\ pc' = [pc EXCEPT ![c] = "s_lock"]
            /\ argTs' = [argTs EXCEPT ![c] = ParseRFC3339(r.timestamp).ts]
            /\ argDur' = [argDur EXCEPT ![c] = DurationOfMs(r.duration_ms)]
    /\ UNCHANGED <<uncached, shared, mu, percentile, result, err, lastPos, stats>>

\* StoreResponseTime returns nil, so "failed to store" is never written:
\* the handler answers {"status": "ok"}.
StoreHandlerReturn(c) ==
    /\ StoreUnlockCached(c)
    /\ response' = [response EXCEPT ![c] = StatusOk]
    /\ UNCHANGED uncached

NextHttp ==
    \E c \in Callers :
        \/ /\ Len(data) + PendingStores < MaxLen
           /\ \E r \in Requests : StoreHandler(c, r)
        \/ StoreLock(c)
        \/ StoreLocked(c)
        \/ StoreAppend(c)
        \/ StoreInvalidate(c)
        \/ StoreHandlerReturn(c)

SpecHttp == Init /\ [][NextHttp]_vars

\* ------------------------------------------------------------------ claims
Range(s) == {s[i] : i \in 1..Len(s)}

IsSortedAsc(s) == \A i \in 1..(Len(s) - 1) : s[i] <= s[i + 1]

Occurrences(s, x) == Cardinality({i \in 1..Len(s) : s[i] = x})

SameMultiset(s, t) ==
    /\ Len(s) = Len(t)
    /\ \A x \in Range(s) \cup Range(t) : Occurrences(s, x) = Occurrences(t, x)

MinOf(s) == CHOOSE x \in Range(s) : \A y \in Range(s) : x <= y
MaxOf(s) == CHOOSE x \in Range(s) : \A y \in Range(s) : y <= x

\* The element at 0-based position k of the ascending-sorted list of s.
KthSmallest(s, k) ==
    CHOOSE v \in Range(s) :
        /\ Cardinality({i \in 1..Len(s) : s[i] < v}) <= k
        /\ k < Cardinality({i \in 1..Len(s) : s[i] <= v})

\* clamp(floor(p/100 * n) - 1, 0, n-1) in exact arithmetic, 0 <= p <= 100.
ExactRank(p, n) ==
    LET i  == (p * n) \div 100 - 1
        lo == IF i < 0 THEN 0 ELSE i
    IN  IF lo > n - 1 THEN n - 1 ELSE lo

Recorded == DurationsOf(data)

\* A query that is over: it returns, or it has panicked.
Answered(c) == pc[c] \in {"g_ret", "panic"}

InRange(p) == p # NaN /\ 0 <= p /\ p <= 100

\* C1: a query with 0 <= p <= 100 that does not overlap any other call on a
\* non-empty store returns the element at index
\* clamp(floor(p/100 * n) - 1, 0, n-1) of the ascending-sorted recorded
\* durations, n being the number of measurements.
C1_ExactNearestRank ==
    \A c \in Callers :
        (Answered(c) /\ Len(data) > 0 /\ InRange(percentile[c])) =>
            /\ err[c] = ErrNil
            /\ result[c] = KthSmallest(Recorded, ExactRank(percentile[c], Len(data)))

\* C2: when a query reads the sorted index under the shared lock, the dirty
\* flag is clear and the index has as many entries as the measurement
\* sequence.
C2_NoStaleRead ==
    \A c \in Callers :
        pc[c] = "g_read" =>
            /\ cacheValid
            /\ Len(sortedCache) = Len(data)

\* C3: while no caller holds the exclusive lock, a clear dirty flag means that
\* the sorted index is the ascending-sorted multiset of all recorded
\* durations.
C3_ValidCacheIsSortedData ==
    (~mu.locked /\ cacheValid) =>
        /\ IsSortedAsc(sortedCache)
        /\ SameMultiset(sortedCache, Recorded)

\* The index is valid for a non-empty sequence while a record waits for the
\* readers to leave.
C3_Witness ==
    /\ ~mu.locked
    /\ cacheValid
    /\ Len(sortedCache) > 0
    /\ \E c \in Callers : pc[c] = "s_wait"
    /\ \E c \in Callers : pc[c] = "g_read"

\* C4: the sorted index a query reads its answer from covers the record that
\* the same caller completed before: it holds that record's duration and is
\* at least as long as the record's position.
C4_ReadYourWrites ==
    \A c \in Callers :
        (pc[c] = "g_read" /\ lastPos[c] > 0) =>
            /\ Len(sortedCache) >= lastPos[c]
            /\ data[lastPos[c]].Duration \in Range(sortedCache)

\* The caller reads an index that another caller's record has already made
\* stale, and it still covers the caller's own record.
C4_Witness ==
    \E c \in Callers :
        /\ pc[c] = "g_read"
        /\ lastPos[c] > 0
        /\ ~cacheValid
        /\ Len(data) > Len(sortedCache)
        /\ data[lastPos[c]].Duration \in Range(sortedCache)

\* C5: after concurrent records have all returned, a single query with p = 100
\* returns the maximum of all recorded durations; no caller's record is
\* missing from it.
C5_MaxAfterConcurrentRecords ==
    \A c \in Callers :
        (Answered(c) /\ percentile[c] = 100 /\ Len(data) > 0) =>
            /\ err[c] = ErrNil
            /\ result[c] = MaxOf(Recorded)
            /\ \A k \in Callers :
                   lastPos[k] > 0 => data[lastPos[k]].Duration <= result[c]

C5_Witness ==
    \E c \in Callers :
        /\ pc[c] = "g_ret"
        /\ percentile[c] = 100
        /\ \A k \in Callers : lastPos[k] > 0
        /\ Len(data) = QuietLen
        /\ result[c] = MaxOf(Recorded)
        /\ data[Len(data)].Duration < result[c]

\* C6: a query that finds the measurement sequence empty fails with the
\* "no data available" error, whatever p is, out of range or not.
C6_EmptyGivesNoData ==
    [][\A c \in Callers :
          (pc[c] = "g_check" /\ Len(data) = 0 /\ pc'[c] # "g_check") =>
              /\ pc'[c] = "g_ret"
              /\ err'[c] = ErrNoData
              /\ result'[c] = 0]_vars

C6_Witness ==
    \E c \in Callers :
        /\ pc[c] = "g_ret"
        /\ Len(data) = 0
        /\ percentile[c] > 100
        /\ err[c] = ErrNoData

\* C7: a query with p < 0 or p > 100 that finds the measurement sequence
\* non-empty fails with the "percentile must be between 0 and 100" error and
\* returns no duration.
C7_OutOfRangeGivesInvalid ==
    [][\A c \in Callers :
          (/\ pc[c] = "g_check"
           /\ Len(data) > 0
           /\ ~InRange(percentile[c])
           /\ pc'[c] # "g_check") =>
              /\ pc'[c] = "g_ret"
              /\ err'[c] = ErrInvalidPercentile
              /\ result'[c] = 0]_vars

C7_Witness ==
    \E c \in Callers :
        /\ pc[c] = "g_ret"
        /\ Len(data) > 0
        /\ percentile[c] < 0
        /\ err[c] = ErrInvalidPercentile
        /\ result[c] = 0

ScenarioRecorded == Recorded = <<100, 200, 150>>

C9_ZeroIsMinHundredIsMax ==
    \A c \in Callers :
        (Answered(c) /\ Len(data) > 0) =>
            /\ percentile[c] = 0 =>
                   (err[c] = ErrNil /\ result[c] = MinOf(Recorded))
            /\ percentile[c] = 100 =>
                   (err[c] = ErrNil /\ result[c] = MaxOf(Recorded))

C9_Witness ==
    \E c \in Callers :
        /\ pc[c] = "g_ret"
        /\ percentile[c] = 0
        /\ Len(data) >= 2
        /\ result[c] = MinOf(Recorded)
        /\ data[1].Duration > result[c]

\* C10: on a store holding exactly one measurement of duration d, a query
\* returns d for every p with 0 <= p <= 100.
C10_SingleEntry ==
    \A c \in Callers :
        (Answered(c) /\ Len(data) = 1 /\ InRange(percentile[c])) =>
            /\ err[c] = ErrNil
            /\ result[c] = data[1].Duration

C10_Witness ==
    \E c \in Callers :
        /\ pc[c] = "g_ret"
        /\ Len(data) = 1
        /\ percentile[c] = 50
        /\ err[c] = ErrNil
        /\ result[c] = data[1].Duration

\* C11: on a dataset that no store changes between two queries, the query
\* with the smaller percentile never returns the larger duration: for
\* 0 <= p1 <= p2 <= 100 the answer to p1 is at most the answer to p2.
C11_MonotoneInPercentile ==
    \A c1, c2 \in Callers :
        ( /\ pc[c1] = "g_ret" /\ pc[c2] = "g_ret"
          /\ Len(data) > 0
          /\ InRange(percentile[c1]) /\ InRange(percentile[c2])
          /\ percentile[c1] <= percentile[c2] ) =>
            /\ err[c1] = ErrNil /\ err[c2] = ErrNil
            /\ result[c1] <= result[c2]

C11_Witness ==
    \E c1, c2 \in Callers :
        /\ pc[c1] = "g_ret" /\ pc[c2] = "g_ret"
        /\ percentile[c1] = 50 /\ percentile[c2] = 100
        /\ err[c1] = ErrNil /\ err[c2] = ErrNil
        /\ result[c1] < result[c2]

\* C12: two queries with the same percentile and no store between them
\* return the same answer, the same duration or the same error, and after
\* the second has answered the store is as the first left it: the cache is
\* valid and holds the recorded durations in ascending order.
C12_RepeatedQuerySameAnswer ==
    \A c1, c2 \in Callers :
        ( /\ c1 # c2
          /\ pc[c1] = "g_ret" /\ pc[c2] = "g_ret"
          /\ percentile[c1] = percentile[c2] ) =>
            /\ err[c1] = err[c2]
            /\ result[c1] = result[c2]
            /\ (err[c1] = ErrNil /\ ~mu.locked) =>
                   (cacheValid /\ sortedCache = SortAsc(Recorded))

C12_Witness ==
    \E c1, c2 \in Callers :
        /\ c1 # c2
        /\ pc[c1] = "g_ret" /\ pc[c2] = "g_ret"
        /\ percentile[c1] = 50 /\ percentile[c2] = 50
        /\ err[c1] = ErrNil /\ err[c2] = ErrNil
        /\ Len(data) = 2
        /\ data[1].Duration > data[2].Duration
        /\ result[c1] = data[2].Duration
        /\ result[c2] = data[2].Duration

\* C13: every record succeeds and does exactly this: it appends one entry
\* with the given timestamp and duration at the end of data, sets the cache
\* flag to invalid, and leaves the contents and length of the sorted cache
\* as they were.  No step of a store changes the cache or reports an error,
\* the only change to data is the append of the caller's entry, and when
\* the call returns the flag is invalid and the last entry is the caller's.
C13_RecordEffect ==
    [][\A c \in Callers :
          /\ (pc[c] \in StorePcs /\ pc'[c] # pc[c]) =>
                /\ sortedCache' = sortedCache
                /\ err'[c] = ErrNil
                /\ data' = IF pc[c] = "s_append"
                           THEN Append(data, Entry(argTs[c], argDur[c]))
                           ELSE data
          /\ (pc[c] = "s_unlock" /\ pc'[c] = "idle") =>
                /\ ~cacheValid'
                /\ data'[Len(data')] = Entry(argTs[c], argDur[c])]_vars

C13_Witness ==
    \E c \in Callers :
        /\ pc[c] = "s_unlock"
        /\ Len(data) = 2
        /\ data[2] = Entry(argTs[c], argDur[c])
        /\ ~cacheValid
        /\ Len(sortedCache) = 1

IsPrefix(s, t) == Len(s) <= Len(t) /\ \A i \in 1..Len(s) : s[i] = t[i]

\* C14: data is append-only.  Across every step of every operation (store,
\* query, rebuild, statistics) data before the step is a prefix of data
\* after it, and the only step that changes data is the append of a store.
C14_AppendOnly ==
    [][/\ IsPrefix(data, data')
       /\ data' # data =>
              \E c \in Callers : pc[c] = "s_append" /\ pc'[c] = "s_inval"]_vars

C14_Witness ==
    /\ Len(data) = 2
    /\ data[1].Duration > data[2].Duration
    /\ cacheValid
    /\ sortedCache = <<data[2].Duration, data[1].Duration>>
    /\ \E c \in Callers : pc[c] = "st_ret"

\* C15: GetStats has no side effects and reports one state.  No step of it
\* changes data, the sorted cache or the cache flag, none enters
\* rebuildCache, and when it releases the read lock the three values it
\* has read (the number of entries, the cache flag, the cache length) are
\* those of the state at that moment.
C15_StatsReadsOneState ==
    [][\A c \in Callers :
          /\ (pc[c] \in StatsPcs /\ pc'[c] # pc[c]) =>
                /\ shared' = shared
                /\ pc'[c] \in StatsPcs \cup {"idle"}
                /\ mu'.writer = mu.writer
          /\ (pc[c] = "st_unlock" /\ pc'[c] = "st_ret") =>
                stats[c] = [total_entries |-> Len(data),
                            cache_valid |-> cacheValid,
                            cache_size |-> Len(sortedCache)]]_vars

C15_Witness ==
    \E c, w \in Callers :
        /\ pc[c] = "st_ret"
        /\ stats[c] = [total_entries |-> 2, cache_valid |-> FALSE,
                       cache_size |-> 1]
        /\ pc[w] \in {"rb_resize", "rb_copy", "rb_sort"}

\* C16: rebuildCache rewrites the sorted cache only when the cache flag is
\* invalid at the moment the caller holds the write lock: a query that saw
\* an invalid cache, and finds it valid once it has the write lock, does
\* not rebuild it again.
C16_RebuildOnlyWhenDirty ==
    \A c \in Callers :
        pc[c] \in {"rb_resize", "rb_copy", "rb_sort"} => ~cacheValid

\* What a query with percentile p answers when it acts on the first n
\* entries of data and takes the element at the exact nearest-rank index.
ExactAnswer(p, n) ==
    IF n = 0 THEN [err |-> ErrNoData, result |-> 0]
    ELSE IF ~InRange(p) THEN [err |-> ErrInvalidPercentile, result |-> 0]
    ELSE [err |-> ErrNil,
          result |-> KthSmallest(SubSeq(Recorded, 1, n), ExactRank(p, n))]

\* C17: each query is linearizable.  Its answer, a duration or an error, is
\* the one that data as it stood at one instant of the call gives with the
\* nearest-rank index clamp(floor(p/100 * n) - 1, 0, n-1).  data only grows
\* by appends, so its states during the call are prefixes of data at the
\* return.
C17_Linearizable ==
    \A c \in Callers :
        pc[c] = "g_ret" =>
            \E n \in 0..Len(data) :
                [err |-> err[c], result |-> result[c]]
                    = ExactAnswer(percentile[c], n)

\* The steps of a caller that release the read lock.
RUnlockStep(c) ==
    \/ pc[c] = "g_check" /\ pc'[c] \in {"g_ret", "rb_lock"}
    \/ pc[c] = "g_read" /\ pc'[c] = "g_ret"
    \/ pc[c] = "st_unlock" /\ pc'[c] = "st_ret"

\* C18: under a fair scheduler and a fair lock every store, query and
\* GetStats call that is invoked returns.  A query does not ask for the
\* write lock while it holds the read lock, a call that has returned holds
\* no lock, and every release of the read lock is of a lock the caller
\* holds.
C18_EveryCallReturns ==
    /\ [](\A c \in Callers :
            /\ pc[c] \in {"rb_lock", "rb_wait"} => c \notin mu.readers
            /\ pc[c] \in {"idle", "g_ret", "st_ret"} =>
                   (c \notin mu.readers /\ mu.writer # c))
    /\ [][\A c \in Callers :
             RUnlockStep(c) => (c \in mu.readers /\ c \notin mu'.readers)]_vars
    /\ \A c \in Callers : (pc[c] # "idle") ~> (pc[c] = "idle")

C18_Witness ==
    \E w, r \in Callers :
        /\ pc[w] = "rb_wait"
        /\ mu.writer = w
        /\ pc[r] = "st_count"
        /\ r \in mu.readers

\* C19: on a non-empty store a query returns a duration only when
\* 0 <= p <= 100; for every other percentile a float64 can hold, NaN among
\* them, it returns the invalid-percentile error.
C19_OnlyInRangeAnswered ==
    \A c \in Callers :
        (Answered(c) /\ Len(data) > 0) =>
            IF InRange(percentile[c])
            THEN err[c] = ErrNil
            ELSE err[c] = ErrInvalidPercentile

\* C20: a new store is fresh, and stays so until the first store appends:
\* while data is empty the sorted cache is empty and the cache flag is
\* valid, and GetStats reports 0 entries, a valid cache and a cache of
\* length 0.
C20_NewStoreIsFresh ==
    Len(data) = 0 =>
        /\ sortedCache = <<>>
        /\ cacheValid
        /\ \A c \in Callers :
               pc[c] \in {"st_unlock", "st_ret"} =>
                   stats[c] = [total_entries |-> 0, cache_valid |-> TRUE,
                               cache_size |-> 0]

C20_Witness ==
    \E c, q \in Callers :
        /\ Len(data) = 0
        /\ pc[c] = "st_ret"
        /\ stats[c] = [total_entries |-> 0, cache_valid |-> TRUE,
                       cache_size |-> 0]
        /\ pc[q] = "g_ret"
        /\ err[q] = ErrNoData

\* C21: under any interleaving, when a query reads sortedCache[idx] the
\* sorted cache is not empty and 0 <= idx < len(sortedCache), also when the
\* query released the lock between its check of data and the read: no
\* query panics on the index.
C21_IndexInRangeAtRead ==
    \A c \in Callers :
        /\ pc[c] # "panic"
        /\ pc[c] = "g_read" =>
               /\ Len(sortedCache) > 0
               /\ 0 <= RankIndex(percentile[c], Len(sortedCache))
               /\ RankIndex(percentile[c], Len(sortedCache)) < Len(sortedCache)

C21_Witness ==
    \E c \in Callers :
        /\ pc[c] = "g_read"
        /\ ~cacheValid
        /\ Len(sortedCache) = 1
        /\ Len(data) = 2

\* C22: a query that fails, with the no-data error or with the
\* invalid-percentile error on a non-empty store, leaves data, the sorted
\* cache and the cache flag as they were and does not rebuild the cache.
\* The steps of a query up to its checks change none of the three, a query
\* gets an error only at the checks, in a step that changes none of them,
\* and the return of the error changes none of them.
C22_FailedQueryChangesNothing ==
    [][\A c \in Callers :
          /\ (pc[c] \in {"idle", "g_rlock", "g_check"}
                 /\ pc'[c] \in {"g_rlock", "g_check", "g_ret"}
                 /\ pc'[c] # pc[c]) =>
                shared' = shared
          /\ (pc[c] # "g_ret" /\ pc'[c] = "g_ret" /\ err'[c] # ErrNil) =>
                /\ pc[c] = "g_check"
                /\ err'[c] = IF Len(data) = 0 THEN ErrNoData
                             ELSE ErrInvalidPercentile
                /\ shared' = shared
          /\ (pc[c] = "g_ret" /\ err[c] # ErrNil /\ pc'[c] = "idle") =>
                shared' = shared]_vars

C22_Witness ==
    \E c \in Callers :
        /\ pc[c] = "g_ret"
        /\ err[c] = ErrInvalidPercentile
        /\ ~cacheValid
        /\ Len(sortedCache) = 1
        /\ Len(data) = 2
        /\ \A o \in Callers : pc[o] \in {"idle", "g_ret"}

\* C23: the sorted cache is never longer than data and its length never
\* decreases.  In a state in which no caller holds the write lock a valid
\* cache is as long as data, so GetStats, once it has read its three
\* values, reports cache_size = total_entries when it reports cache_valid,
\* and reports cache_valid = false when it reports
\* cache_size < total_entries.
C23_CacheLengthBounded ==
    /\ [](/\ Len(sortedCache) <= Len(data)
          /\ (~mu.locked /\ cacheValid) => Len(sortedCache) = Len(data)
          /\ \A c \in Callers :
                pc[c] \in {"st_unlock", "st_ret"} =>
                    /\ stats[c].cache_size <= stats[c].total_entries
                    /\ stats[c].cache_valid =>
                           stats[c].cache_size = stats[c].total_entries)
    /\ [][Len(sortedCache') >= Len(sortedCache)]_vars

C23_Witness ==
    \E c \in Callers :
        /\ pc[c] = "st_ret"
        /\ stats[c] = [total_entries |-> 2, cache_valid |-> FALSE,
                       cache_size |-> 1]
        /\ ~mu.locked
        /\ cacheValid
        /\ Len(sortedCache) = 2

\* C24: used by one caller, one call after the other, the cached Service
\* and the Service without cache cannot be told apart: every
\* GetResponseTime returns the same duration or the same error in both, and
\* after every call both hold the same data.
C24_SameAnswersSequentially ==
    /\ pc[1] # "panic"
    /\ pc[1] = "idle" => data = udata
    /\ pc[1] = "g_ret" =>
           /\ result[1] = uresult
           /\ err[1] = uerr
           /\ data = udata

C24_Witness ==
    /\ pc[1] = "g_ret"
    /\ percentile[1] = 90
    /\ err[1] = ErrNil /\ uerr = ErrNil
    /\ result[1] = 150 /\ uresult = 150
    /\ DurationsOf(udata) = <<200, 100, 150>>
    /\ data = udata

\* C25: every measurement held by the store has a non-negative duration:
\* storeHandler hands StoreResponseTime only non-negative durations, so a
\* POST /store whose duration_ms is negative adds no measurement.
C25_StoredDurationsNonNegative ==
    \A i \in 1..Len(data) : data[i].Duration >= 0

====
